---- MODULE Spec2Model ----
(***************************************************************************)
(* Leverage feasibility frontier: the cashflow model, the grid builder,    *)
(* the analytical solver, the distribution evaluator and the LTV sweep of  *)
(* src/src/model.py and src/src/simulate.py.                               *)
(*                                                                         *)
(* Numbers.  The program computes in binary floating point.  The model     *)
(* computes in exact rational arithmetic: a number is a pair <<n, d>> in   *)
(* lowest terms with d > 0, and <<1, 0>> is +infinity (np.inf).  TLC's     *)
(* integers are 32 bits wide, so the two decimal constants of ltv_grid     *)
(* (the 1e-12 tolerance and the 10 decimal places of np.round) are kept at *)
(* a coarser decimal scale, with inputs drawn finer than both so that the  *)
(* tolerance and the rounding act.                                         *)
(***************************************************************************)
EXTENDS Integers, Sequences, FiniteSets

\* ------------------------------------------------------------------------
\* Rational arithmetic (the float operators of the source)
\* ------------------------------------------------------------------------

Abs(a) == IF a < 0 THEN -a ELSE a

RECURSIVE GCD(_, _)
GCD(a, b) == IF b = 0 THEN a ELSE GCD(b, a % b)

LCM(a, b) == (a \div GCD(a, b)) * b

\* n/d in lowest terms, d # 0.
Q(n, d) ==
    LET g == GCD(Abs(n), Abs(d))
        s == IF d < 0 THEN -1 ELSE 1
    IN  <<s * (n \div g), s * (d \div g)>>

Zero == <<0, 1>>
One == <<1, 1>>
Inf == <<1, 0>>

IsFinite(x) == x[2] # 0

RAdd(x, y) ==
    LET l == LCM(x[2], y[2])
    IN  Q(x[1] * (l \div x[2]) + y[1] * (l \div y[2]), l)

RNeg(x) == <<-x[1], x[2]>>

RSub(x, y) == RAdd(x, RNeg(y))

RMul(x, y) ==
    LET g1 == GCD(Abs(x[1]), y[2])
        g2 == GCD(Abs(y[1]), x[2])
    IN  Q((x[1] \div g1) * (y[1] \div g2), (x[2] \div g2) * (y[2] \div g1))

\* x / y for y # 0.
RDiv(x, y) == RMul(x, IF y[1] > 0 THEN <<y[2], y[1]>> ELSE <<-y[2], -y[1]>>)

\* x < y; every finite number is below +infinity.
RLt(x, y) ==
    IF ~IsFinite(y) THEN IsFinite(x)
    ELSE IF ~IsFinite(x) THEN FALSE
    ELSE LET l == LCM(x[2], y[2])
         IN  x[1] * (l \div x[2]) < y[1] * (l \div y[2])

RLe(x, y) == ~RLt(y, x)

RGe(x, y) == ~RLt(x, y)

RGt(x, y) == RLt(y, x)

Min2_Max(a, b) == IF RLt(a, b) THEN b ELSE a

\* Python's min(a, b): b when b < a, else a.
Min2(a, b) == IF RLt(b, a) THEN b ELSE a

\* np.floor of a finite number, as an integer.
Floor(x) == x[1] \div x[2]

\* The outcome of a call: a returned value, or a raised ValueError.
Return(v) == [raised |-> FALSE, msg |-> "", val |-> v]

Raise(m) == [raised |-> TRUE, msg |-> m, val |-> Zero]

\* ------------------------------------------------------------------------
\* model.py: CashflowModel (self is its operating_cost_ratio c)
\* ------------------------------------------------------------------------

noi(c, gross_rent, occupancy) == RMul(RMul(RSub(One, c), gross_rent), occupancy)

interest_RateOnly(rate, debt) == rate

interest(rate, debt) == RMul(rate, debt)

net_cashflow_Added(c, gross_rent, occupancy, rate, debt) ==
    RAdd(noi(c, gross_rent, occupancy), interest(rate, debt))

net_cashflow(c, gross_rent, occupancy, rate, debt) ==
    RSub(noi(c, gross_rent, occupancy), interest(rate, debt))

dscr_NoFloor(c, gross_rent, occupancy, rate, debt) ==
    LET n == noi(c, gross_rent, occupancy)
        intr == interest(rate, debt)
    IN  IF RLe(intr, Zero) THEN Raise("Interest must be > 0 (check rate/debt).")
        ELSE Return(RDiv(n, intr))

dscr(c, gross_rent, occupancy, rate, debt) ==
    LET n == noi(c, gross_rent, occupancy)
        intr == interest(rate, debt)
    IN  IF RLe(intr, Zero) THEN Raise("Interest must be > 0 (check rate/debt).")
        ELSE Return(IF RLe(n, Zero) THEN Zero ELSE RDiv(n, intr))

\* ------------------------------------------------------------------------
\* model.py: ltv_grid
\* ------------------------------------------------------------------------

\* The tolerance added before np.floor (1e-12 in the source; see Numbers).
GridTolerance == Q(1, 10000)

\* The unit np.round(grid, 10) rounds to (1e-10 in the source; see Numbers);
\* the tolerance is a hundredth of it, as in the source.
RoundUnit == Q(1, 100)

\* np.round: to the nearest multiple of the unit, ties to the even multiple.
Round(x, unit) ==
    LET y == RDiv(x, unit)
        f == Floor(y)
        r == RSub(y, <<f, 1>>)
        half == Q(1, 2)
        k == IF RLt(r, half) THEN f
             ELSE IF RGt(r, half) THEN f + 1
             ELSE IF f % 2 = 0 THEN f ELSE f + 1
    IN  RMul(<<k, 1>>, unit)

\* The number of points: int(np.floor((stop - start) / step + 1e-12)) + 1.
grid_n(start, stop, step) ==
    Floor(RAdd(RDiv(RSub(stop, start), step), GridTolerance)) + 1

ltv_grid_Exclusive(start, stop, step) ==
    IF RLe(step, Zero) THEN Raise("step must be > 0")
    ELSE LET n == grid_n(start, stop, step) - 1
         IN  Return([k \in 1..n |->
                 Round(RAdd(start, RMul(step, <<k - 1, 1>>)), RoundUnit)])

\* np.arange(n) is empty for n <= 0, as 1..n is.
ltv_grid(start, stop, step) ==
    IF RLe(step, Zero) THEN Raise("step must be > 0")
    ELSE LET n == grid_n(start, stop, step)
         IN  Return([k \in 1..n |->
                 Round(RAdd(start, RMul(step, <<k - 1, 1>>)), RoundUnit)])

\* ------------------------------------------------------------------------
\* model.py: normalisation to unit price, analytical solver
\* ------------------------------------------------------------------------

normalised_rent_from_yield(gross_yield, price) == RMul(gross_yield, price)

normalised_debt_from_ltv(ltv, price) ==
    IF RLe(ltv, Zero) \/ RGe(ltv, One) THEN Raise("ltv must be in (0, 1)")
    ELSE Return(RMul(ltv, price))

analytical_max_rate_for_dscr_NoMin(c, gross_yield, ltv, occupancy, min_dscr) ==
    IF RLe(ltv, Zero) THEN Raise("ltv must be > 0")
    ELSE IF RLe(min_dscr, Zero) THEN Raise("min_dscr must be > 0")
    ELSE Return(RDiv(RMul(RMul(RSub(One, c), gross_yield), occupancy), ltv))

analytical_max_rate_for_dscr(c, gross_yield, ltv, occupancy, min_dscr) ==
    IF RLe(ltv, Zero) THEN Raise("ltv must be > 0")
    ELSE IF RLe(min_dscr, Zero) THEN Raise("min_dscr must be > 0")
    ELSE Return(RDiv(RMul(RMul(RSub(One, c), gross_yield), occupancy),
                     RMul(min_dscr, ltv)))

analytical_break_even_shock_bp(base_rate, max_rate) ==
    RMul(<<10000, 1>>, RSub(max_rate, base_rate))

\* ------------------------------------------------------------------------
\* model.py: normalise_weights
\* ------------------------------------------------------------------------

RECURSIVE SeqSum(_)
SeqSum(w) == IF w = <<>> THEN Zero ELSE RAdd(w[1], SeqSum(Tail(w)))

normalise_weights_NoSignCheck(values, weights) ==
    IF Len(values) # Len(weights)
    THEN Raise("values and weights must be 1D arrays of equal length")
    ELSE LET s == SeqSum(weights)
         IN  IF RLe(s, Zero) THEN Raise("sum(weights) must be > 0")
             ELSE Return([values |-> values,
                          weights |-> [i \in 1..Len(weights) |-> RDiv(weights[i], s)]])

normalise_weights(values, weights) ==
    IF Len(values) # Len(weights)
    THEN Raise("values and weights must be 1D arrays of equal length")
    ELSE IF \E i \in 1..Len(weights) : RLt(weights[i], Zero)
    THEN Raise("weights must be non-negative")
    ELSE LET s == SeqSum(weights)
         IN  IF RLe(s, Zero) THEN Raise("sum(weights) must be > 0")
             ELSE Return([values |-> values,
                          weights |-> [i \in 1..Len(weights) |-> RDiv(weights[i], s)]])

\* ------------------------------------------------------------------------
\* State
\* ------------------------------------------------------------------------

VARIABLES
    fn,           \* the function a direct call applies ("" when main runs)
    args,         \* the arguments of the direct call
    ret,          \* the outcomes of the direct call, in order
    assumptions,  \* main: the parsed configuration (assumptions.yaml, CLI)
    pc,           \* main: the position in main
    ltvs,         \* main: the sweep grid
    k,            \* main: the index of the current LTV in ltvs (from 1)
    loc,          \* main: the locals of the current iteration of the sweep
    fp,           \* the frame of failure_probability_over_distribution
    rows,         \* main: the rows appended so far
    df,           \* main: the result table (NoTable until it is built)
    error         \* the message of the error that left main ("" when none)

vars == <<fn, args, ret, assumptions, pc, ltvs, k, loc, fp, rows, df, error>>

fnVars == <<fn, args, ret>>

mainVars == <<assumptions, pc, ltvs, k, loc, fp, rows, df, error>>

NoTable == [built |-> FALSE, records |-> <<>>]

Table(rs) == [built |-> TRUE, records |-> rs]

\* ------------------------------------------------------------------------
\* Bounds and input sets
\* ------------------------------------------------------------------------

\* The longest support of a distribution.
MaxSupport == 2

\* All sequences over S of length n.
SeqsOfLen(S, n) == [1..n -> S]

SeqsUpTo(S, n) == UNION {SeqsOfLen(S, m) : m \in 0..n}

CostRatios == {Q(3, 10), One, Q(6, 5)}

Occupancies == {Zero, Q(9, 10)}

Rates == {Q(-1, 100), Zero, Q(1, 20), Q(63, 1000), Q(2, 25)}

Debts == {Q(-1, 2), Zero, Q(1, 2), Q(7, 10), Q(4, 5), One}

MinDscrs == {Zero, One, Q(5, 4)}

GridStarts == {Zero, Q(3, 200), Q(1, 8), Q(1, 2), Q(4, 5)}

GridStops == {Zero, Q(29999, 100000), Q(3, 8), Q(1, 2), Q(4, 5), One}

GridSteps == {Q(-1, 20), Zero, Q(1, 200), Q(1, 100), Q(1, 20), Q(1, 10), Q(1, 8), Q(3, 10)}

WeightValues == {Q(-1, 1), Zero, One, Q(3, 1)}

SupportValues == {Q(1, 2), One}

\* ------------------------------------------------------------------------
\* Direct calls of the pure functions of model.py
\* ------------------------------------------------------------------------

MainIdle ==
    /\ assumptions = [preset |-> ""]
    /\ pc = "idle"
    /\ ltvs = <<>>
    /\ k = 0
    /\ loc = [i |-> 0]
    /\ fp = [i |-> 0]
    /\ rows = <<>>
    /\ df = NoTable
    /\ error = ""

InitFn ==
    /\ ret = <<>>
    /\ MainIdle
    /\ \/ /\ fn = "dscr"
          /\ args \in [c : CostRatios, gross_rent : {Zero, Q(7, 100)},
                       occupancy : Occupancies \cup {Q(-1, 2)},
                       rate : Rates, debt : Debts]
       \/ /\ fn = "ltv_grid"
          /\ args \in [start : GridStarts, stop : GridStops, step : GridSteps]
       \/ /\ fn = "normalise_weights"
          /\ args \in [values : SeqsUpTo(SupportValues, MaxSupport),
                       weights : SeqsUpTo(WeightValues, MaxSupport)]
       \/ /\ fn = "solver"
          /\ args \in [c : CostRatios, gross_yield : {Zero, Q(7, 100)},
                       occupancy : Occupancies \cup {Q(-1, 2)}, rate : Rates,
                       min_dscr : MinDscrs, base_rate : {Q(1, 20)},
                       ltvs : {<<Q(1, 2), Q(7, 10)>>, <<Q(7, 10), Q(4, 5)>>,
                               <<Q(7, 10), Q(1, 2)>>, <<Zero, Q(1, 2)>>}]

Call_dscr ==
    /\ fn = "dscr" /\ ret = <<>>
    /\ ret' = <<dscr(args.c, args.gross_rent, args.occupancy, args.rate, args.debt)>>
    /\ UNCHANGED <<fn, args, mainVars>>

Call_ltv_grid ==
    /\ fn = "ltv_grid" /\ ret = <<>>
    /\ ret' = <<ltv_grid(args.start, args.stop, args.step)>>
    /\ UNCHANGED <<fn, args, mainVars>>

Call_normalise_weights ==
    /\ fn = "normalise_weights" /\ ret = <<>>
    /\ ret' = <<normalise_weights(args.values, args.weights)>>
    /\ UNCHANGED <<fn, args, mainVars>>

\* The numeric DSCR at unit price beside the analytical solver, at one LTV:
\* the max rate and the shock are composed as main composes them.
SolveAt(a, ltv) ==
    LET max_rate == analytical_max_rate_for_dscr(
                        a.c, a.gross_yield, ltv, a.occupancy, a.min_dscr)
    IN  [ltv |-> ltv,
         dscr |-> dscr(a.c, normalised_rent_from_yield(a.gross_yield, One),
                       a.occupancy, a.rate, ltv),
         max_rate |-> max_rate,
         max_shock_bp |-> IF max_rate.raised THEN max_rate
                          ELSE Return(analytical_break_even_shock_bp(
                                          a.base_rate, max_rate.val))]

Call_solver ==
    /\ fn = "solver" /\ Len(ret) < Len(args.ltvs)
    /\ ret' = Append(ret, SolveAt(args, args.ltvs[Len(ret) + 1]))
    /\ UNCHANGED <<fn, args, mainVars>>

NextFn == Call_dscr \/ Call_ltv_grid \/ Call_normalise_weights \/ Call_solver

SpecFn == InitFn /\ [][NextFn]_vars

\* ------------------------------------------------------------------------
\* simulate.py: main, the LTV sweep, with failure_probability_over_distribution
\* stepped one (occupancy, shock) pair at a time
\* ------------------------------------------------------------------------

LocInit ==
    [R |-> Zero, D |-> Zero, stress_rate |-> Zero, stress_cf |-> Zero,
     stress_dscr |-> Zero, passes_stress |-> FALSE, p_fail |-> Zero,
     passes_prob |-> FALSE, worst_cf |-> Inf, worst_dscr |-> Inf,
     i |-> 0, j |-> 0]

FpIdle ==
    [shock_bp_values |-> <<>>, shock_bp_weights |-> <<>>, occ_values |-> <<>>,
     occ_weights |-> <<>>, fail_w |-> Zero, i |-> 0, j |-> 0]

\* Hand-picked distributions of the sweeps: valid ones (one with a pair of
\* zero weight), and ones that make normalise_weights or dscr raise.
OccDists ==
    {[values |-> <<One, Q(4, 5)>>, weights |-> <<Q(3, 1), One>>],
     [values |-> <<One, Q(1, 2)>>, weights |-> <<One, Zero>>],
     [values |-> <<One>>, weights |-> <<Zero>>]}

ShockDists ==
    {[values |-> <<Zero, Q(200, 1)>>, weights |-> <<One, One>>],
     [values |-> <<Zero, Q(400, 1)>>, weights |-> <<One, Zero>>],
     [values |-> <<Zero, Q(-500, 1)>>, weights |-> <<One, One>>],
     [values |-> <<Zero>>, weights |-> <<One, Q(-1, 1)>>]}

Sweeps ==
    {[start |-> Q(1, 2), stop |-> Q(4, 5), step |-> Q(1, 10)],
     [start |-> Q(1, 8), stop |-> Q(3, 8), step |-> Q(1, 8)],
     [start |-> Q(3, 5), stop |-> One, step |-> Q(1, 5)],
     [start |-> Q(4, 5), stop |-> Q(1, 2), step |-> Q(1, 10)],
     [start |-> Q(1, 2), stop |-> Q(4, 5), step |-> Zero]}

\* Every distribution with a support of at most MaxSupport values of V and
\* weights of W, values and weights of equal length.
Dists(V, W) ==
    UNION {[values : SeqsOfLen(V, n), weights : SeqsOfLen(W, n)] : n \in 0..MaxSupport}

\* Every distribution over the shocks 0, 300, 600, ... bp with a support of
\* at most MaxSupport values and weights of W.
ShockLadders(W) ==
    UNION {[values : {[i \in 1..n |-> Q(300 * (i - 1), 1)]}, weights : SeqsOfLen(W, n)] :
              n \in 0..MaxSupport}

Assumptions(c, min_dscr, min_cf, max_fail_prob, stress, sweep, occ, shock) ==
    [c |-> c, base_rate |-> Q(1, 20), gross_yield |-> Q(7, 100),
     min_dscr |-> min_dscr, min_cf |-> min_cf, max_fail_prob |-> max_fail_prob,
     stress_occ |-> stress.occupancy, stress_shock_bp |-> stress.rate_shock_bp,
     start |-> sweep.start, stop |-> sweep.stop, step |-> sweep.step,
     occ_values |-> occ.values, occ_weights |-> occ.weights,
     shock_bp_values |-> shock.values, shock_bp_weights |-> shock.weights]

StressTests ==
    {[occupancy |-> Q(9, 10), rate_shock_bp |-> Q(100, 1)],
     [occupancy |-> Q(9, 10), rate_shock_bp |-> Q(-500, 1)]}

\* The configurations main starts from: sweeps over the hand-picked
\* distributions, and one-point sweeps over every bounded distribution.
Configurations ==
    {Assumptions(c, m, cf, p, st, sw, o, s) :
        c \in {Q(3, 10), Q(6, 5)}, m \in {One, Zero}, cf \in {Zero, Q(1, 100)},
        p \in {Zero, Q(1, 8)}, st \in StressTests, sw \in Sweeps,
        o \in OccDists, s \in ShockDists}
    \cup
    {Assumptions(Q(3, 10), One, Zero, Q(1, 8),
                 [occupancy |-> Q(9, 10), rate_shock_bp |-> Q(100, 1)],
                 [start |-> Q(7, 10), stop |-> Q(7, 10), step |-> Q(1, 10)], o, s) :
        o \in Dists(SupportValues, {Zero, One}),
        s \in ShockLadders({One, Q(3, 1)})}

Init ==
    /\ fn = "" /\ args = <<>> /\ ret = <<>>
    /\ assumptions \in Configurations
    /\ pc = "grid"
    /\ ltvs = <<>>
    /\ k = 0
    /\ loc = LocInit
    /\ fp = FpIdle
    /\ rows = <<>>
    /\ df = NoTable
    /\ error = ""

\* An error raised in a continuing variant: the LTV is skipped.
Abort_Continue(e) ==
    /\ error' = e.msg
    /\ pc' = "loop"
    /\ k' = k + 1
    /\ fp' = FpIdle
    /\ UNCHANGED <<fnVars, assumptions, ltvs, loc, rows, df>>

\* A raised error leaves main: nothing in main catches it.
Abort(e) ==
    /\ error' = e.msg
    /\ pc' = "raised"
    /\ fp' = FpIdle
    /\ UNCHANGED <<fnVars, assumptions, ltvs, k, loc, rows, df>>

\* scenario rate = base_rate + shock_bp / 10_000
scenario_rate(base_rate, shock_bp) == RAdd(base_rate, RDiv(shock_bp, <<10000, 1>>))

BuildGrid ==
    /\ pc = "grid"
    /\ LET g == ltv_grid(assumptions.start, assumptions.stop, assumptions.step)
       IN  IF g.raised THEN Abort(g)
           ELSE /\ ltvs' = g.val
                /\ k' = 1
                /\ pc' = "loop"
                /\ UNCHANGED <<fnVars, assumptions, loc, fp, rows, df, error>>

NextLtv ==
    /\ pc = "loop" /\ k <= Len(ltvs)
    /\ LET R == normalised_rent_from_yield(assumptions.gross_yield, One)
           D == normalised_debt_from_ltv(ltvs[k], One)
       IN  IF D.raised THEN Abort(D)
           ELSE /\ loc' = [loc EXCEPT !.R = R, !.D = D.val]
                /\ pc' = "stress"
                /\ UNCHANGED <<fnVars, assumptions, ltvs, k, fp, rows, df, error>>

StressScenario ==
    /\ pc = "stress"
    /\ LET a == assumptions
           stress_rate == scenario_rate(a.base_rate, a.stress_shock_bp)
           stress_cf == net_cashflow(a.c, loc.R, a.stress_occ, stress_rate, loc.D)
           stress_dscr == dscr(a.c, loc.R, a.stress_occ, stress_rate, loc.D)
       IN  IF stress_dscr.raised THEN Abort(stress_dscr)
           ELSE /\ loc' = [loc EXCEPT
                             !.stress_rate = stress_rate,
                             !.stress_cf = stress_cf,
                             !.stress_dscr = stress_dscr.val,
                             !.passes_stress = RGe(stress_cf, a.min_cf)
                                               /\ RGe(stress_dscr.val, a.min_dscr)]
                /\ pc' = "fp_call"
                /\ UNCHANGED <<fnVars, assumptions, ltvs, k, fp, rows, df, error>>

\* failure_probability_over_distribution: both distributions normalised,
\* fail_w = 0.0, and the loops at their first pair.
FPNormalise ==
    /\ pc = "fp_call"
    /\ LET a == assumptions
           s == normalise_weights(a.shock_bp_values, a.shock_bp_weights)
           o == normalise_weights(a.occ_values, a.occ_weights)
       IN  IF s.raised THEN Abort(s)
           ELSE IF o.raised THEN Abort(o)
           ELSE /\ fp' = [shock_bp_values |-> s.val.values,
                          shock_bp_weights |-> s.val.weights,
                          occ_values |-> o.val.values,
                          occ_weights |-> o.val.weights,
                          fail_w |-> Zero, i |-> 1, j |-> 1]
                /\ pc' = "fp_loop"
                /\ UNCHANGED <<fnVars, assumptions, ltvs, k, loc, rows, df, error>>

\* joint_w = np.outer(occ_weights, shock_bp_weights), at [i, j].
joint_w(f, i, j) == RMul(f.occ_weights[i], f.shock_bp_weights[j])

failed_And(ds, cf, min_dscr, min_cashflow) ==
    RLt(ds, min_dscr) /\ RLt(cf, min_cashflow)

failed(ds, cf, min_dscr, min_cashflow) ==
    RLt(ds, min_dscr) \/ RLt(cf, min_cashflow)

\* The indices of the pair after (i, j) in the nested loops over n_j columns.
next_pair(i, j, n_j) == IF j < n_j THEN <<i, j + 1>> ELSE <<i + 1, 1>>

\* One pass of the inner loop body, for the pair (fp.i, fp.j).
FPPair ==
    /\ pc = "fp_loop" /\ fp.i <= Len(fp.occ_values)
    /\ LET a == assumptions
           occ == fp.occ_values[fp.i]
           rate == scenario_rate(a.base_rate, fp.shock_bp_values[fp.j])
           cf == net_cashflow(a.c, loc.R, occ, rate, loc.D)
           ds == dscr(a.c, loc.R, occ, rate, loc.D)
           nxt == next_pair(fp.i, fp.j, Len(fp.shock_bp_values))
       IN  IF ds.raised THEN Abort(ds)
           ELSE /\ fp' = [fp EXCEPT
                            !.fail_w = IF failed(ds.val, cf, a.min_dscr, a.min_cf)
                                       THEN RAdd(fp.fail_w, joint_w(fp, fp.i, fp.j))
                                       ELSE fp.fail_w,
                            !.i = nxt[1], !.j = nxt[2]]
                /\ UNCHANGED <<fnVars, assumptions, pc, ltvs, k, loc, rows, df, error>>

\* return float(fail_w); main takes it as p_fail, decides passes_prob and
\* resets the worst case to np.inf.
FPReturn ==
    /\ pc = "fp_loop" /\ fp.i > Len(fp.occ_values)
    /\ loc' = [loc EXCEPT
                 !.p_fail = fp.fail_w,
                 !.passes_prob = RLe(fp.fail_w, assumptions.max_fail_prob),
                 !.worst_cf = Inf, !.worst_dscr = Inf, !.i = 1, !.j = 1]
    /\ fp' = FpIdle
    /\ pc' = "worst"
    /\ UNCHANGED <<fnVars, assumptions, ltvs, k, rows, df, error>>

\* One pass of the worst-case loop body over the raw supports.
WorstPair ==
    /\ pc = "worst" /\ loc.i <= Len(assumptions.occ_values)
    /\ LET a == assumptions
           occ == a.occ_values[loc.i]
           rate == scenario_rate(a.base_rate, a.shock_bp_values[loc.j])
           cf == net_cashflow(a.c, loc.R, occ, rate, loc.D)
           ds == dscr(a.c, loc.R, occ, rate, loc.D)
           nxt == next_pair(loc.i, loc.j, Len(a.shock_bp_values))
       IN  IF ds.raised THEN Abort(ds)
           ELSE /\ loc' = [loc EXCEPT
                             !.worst_cf = Min2(loc.worst_cf, cf),
                             !.worst_dscr = Min2(loc.worst_dscr, ds.val),
                             !.i = nxt[1], !.j = nxt[2]]
                /\ UNCHANGED <<fnVars, assumptions, pc, ltvs, k, fp, rows, df, error>>

make_row_Or(a, l, ltv, max_shock_bp) ==
    [gross_yield |-> a.gross_yield,
     base_rate |-> a.base_rate,
     ltv |-> ltv,
     theta_rent_to_debt |-> RDiv(a.gross_yield, ltv),
     stress_occ |-> a.stress_occ,
     stress_shock_bp |-> a.stress_shock_bp,
     stress_rate |-> l.stress_rate,
     stress_cashflow |-> l.stress_cf,
     stress_dscr |-> l.stress_dscr,
     worst_cashflow_on_support |-> l.worst_cf,
     worst_dscr_on_support |-> l.worst_dscr,
     failure_probability |-> l.p_fail,
     max_failure_probability |-> a.max_fail_prob,
     max_shock_bp_at_stress_occ_dscr1 |-> max_shock_bp,
     passes_stress |-> l.passes_stress,
     passes_probability |-> l.passes_prob,
     admissible |-> (l.passes_stress \/ l.passes_prob)]

\* The row main appends for one LTV.
make_row(a, l, ltv, max_shock_bp) ==
    [gross_yield |-> a.gross_yield,
     base_rate |-> a.base_rate,
     ltv |-> ltv,
     theta_rent_to_debt |-> RDiv(a.gross_yield, ltv),
     stress_occ |-> a.stress_occ,
     stress_shock_bp |-> a.stress_shock_bp,
     stress_rate |-> l.stress_rate,
     stress_cashflow |-> l.stress_cf,
     stress_dscr |-> l.stress_dscr,
     worst_cashflow_on_support |-> l.worst_cf,
     worst_dscr_on_support |-> l.worst_dscr,
     failure_probability |-> l.p_fail,
     max_failure_probability |-> a.max_fail_prob,
     max_shock_bp_at_stress_occ_dscr1 |-> max_shock_bp,
     passes_stress |-> l.passes_stress,
     passes_probability |-> l.passes_prob,
     admissible |-> (l.passes_stress /\ l.passes_prob)]

\* The analytical max tolerable shock at the stress occupancy, and the row.
AppendRow ==
    /\ pc = "worst" /\ loc.i > Len(assumptions.occ_values)
    /\ LET a == assumptions
           max_rate == analytical_max_rate_for_dscr(
                           a.c, a.gross_yield, ltvs[k], a.stress_occ, a.min_dscr)
       IN  IF max_rate.raised THEN Abort(max_rate)
           ELSE /\ rows' = Append(rows,
                               make_row(a, loc, ltvs[k],
                                        analytical_break_even_shock_bp(
                                            a.base_rate, max_rate.val)))
                /\ k' = k + 1
                /\ pc' = "loop"
                /\ UNCHANGED <<fnVars, assumptions, ltvs, loc, fp, df, error>>

\* The loop is over: the table is built from the rows and saved.
Finish ==
    /\ pc = "loop" /\ k > Len(ltvs)
    /\ df' = Table(rows)
    /\ pc' = "done"
    /\ UNCHANGED <<fnVars, assumptions, ltvs, k, loc, fp, rows, error>>

Next ==
    \/ BuildGrid
    \/ NextLtv
    \/ StressScenario
    \/ FPNormalise
    \/ FPPair
    \/ FPReturn
    \/ WorstPair
    \/ AppendRow
    \/ Finish

Spec == Init /\ [][Next]_vars

\* ------------------------------------------------------------------------
\* Claims about the pure functions (checked under SpecFn)
\* ------------------------------------------------------------------------

\* C1: dscr raises whenever interest = rate*debt <= 0, whatever the NOI;
\* with interest > 0 it returns exactly 0 when noi = (1-c)*gross_rent*occupancy
\* is <= 0, and noi/interest otherwise.
C1_DscrContract ==
    (fn = "dscr" /\ ret # <<>>) =>
        LET intr == RMul(args.rate, args.debt)
            n == RMul(RMul(RSub(One, args.c), args.gross_rent), args.occupancy)
            out == ret[1]
        IN  /\ RLe(intr, Zero) => out.raised
            /\ (RGt(intr, Zero) /\ RLe(n, Zero)) => (~out.raised /\ out.val = Zero)
            /\ (RGt(intr, Zero) /\ RGt(n, Zero)) =>
                   (~out.raised /\ RMul(out.val, intr) = n)

\* A call with positive interest and negative NOI has returned the floor 0.
C1_Witness ==
    /\ fn = "dscr" /\ ret # <<>>
    /\ RGt(RMul(args.rate, args.debt), Zero)
    /\ RLt(RMul(RMul(RSub(One, args.c), args.gross_rent), args.occupancy), Zero)
    /\ ~ret[1].raised /\ ret[1].val = Zero

InUnit(x) == RGt(x, Zero) /\ RLt(x, One)

C7_Case ==
    /\ fn = "solver" /\ Len(ret) = 2
    /\ RLt(args.c, One) /\ RGt(args.gross_yield, Zero)
    /\ RGt(args.rate, Zero) /\ RGt(args.min_dscr, Zero)
    /\ InUnit(ret[1].ltv) /\ InUnit(ret[2].ltv) /\ RLt(ret[1].ltv, ret[2].ltv)

C7_Decreases ==
    /\ ~ret[1].dscr.raised /\ ~ret[2].dscr.raised
    /\ RLt(ret[2].dscr.val, ret[1].dscr.val)
    /\ ~ret[1].max_shock_bp.raised /\ ~ret[2].max_shock_bp.raised
    /\ RLt(ret[2].max_shock_bp.val, ret[1].max_shock_bp.val)

\* C7 as stated: with gross yield > 0 and cost ratio < 1 (any occupancy), the
\* DSCR and the max tolerable shock at the larger LTV are strictly smaller.
C7_Original == C7_Case => C7_Decreases

\* C7 amended: the same, for a strictly positive occupancy.
C7_Monotone == (C7_Case /\ RGt(args.occupancy, Zero)) => C7_Decreases

C7_Witness == C7_Case /\ RGt(args.occupancy, Zero) /\ C7_Decreases

Max2(a, b) == IF a > b THEN a ELSE b

IsWholeMultiple(x, step) == RDiv(x, step)[2] = 1

GridReturned == fn = "ltv_grid" /\ ret # <<>> /\ ~ret[1].raised

\* C6 as stated: floor((stop-start)/step + tolerance) + 1 values, the k-th
\* being start + k*step, strictly ascending, stop the last value when
\* stop-start is a whole multiple of step, and no value beyond stop.
C6_Original ==
    (fn = "ltv_grid" /\ ret # <<>> /\ RGt(args.step, Zero)) =>
        LET g == ret[1].val
            q == RDiv(RSub(args.stop, args.start), args.step)
        IN  /\ ~ret[1].raised
            /\ Len(g) = Floor(RAdd(q, GridTolerance)) + 1
            /\ \A i \in 1..Len(g) : g[i] = RAdd(args.start, RMul(<<i - 1, 1>>, args.step))
            /\ \A i \in 1..(Len(g) - 1) : RLt(g[i], g[i + 1])
            /\ IsWholeMultiple(RSub(args.stop, args.start), args.step) =>
                   (Len(g) > 0 /\ g[Len(g)] = args.stop)
            /\ \A i \in 1..Len(g) : RLe(g[i], args.stop)

\* C6 amended: max(0, floor((stop-start)/step + tolerance) + 1) values, the
\* k-th being start + k*step rounded to the rounding unit, in non-decreasing
\* order and strictly ascending when step exceeds the rounding unit; when
\* stop-start is a non-negative whole multiple of step the last value is stop
\* rounded; no value is beyond stop + tolerance*step rounded.
C6_Grid ==
    (fn = "ltv_grid" /\ ret # <<>> /\ RGt(args.step, Zero)) =>
        LET g == ret[1].val
            d == RSub(args.stop, args.start)
            q == RDiv(d, args.step)
        IN  /\ ~ret[1].raised
            /\ Len(g) = Max2(0, Floor(RAdd(q, GridTolerance)) + 1)
            /\ \A i \in 1..Len(g) :
                   g[i] = Round(RAdd(args.start, RMul(<<i - 1, 1>>, args.step)), RoundUnit)
            /\ \A i \in 1..(Len(g) - 1) :
                   /\ RLe(g[i], g[i + 1])
                   /\ RGt(args.step, RoundUnit) => RLt(g[i], g[i + 1])
            /\ (IsWholeMultiple(d, args.step) /\ RGe(d, Zero)) =>
                   (Len(g) > 0 /\ g[Len(g)] = Round(args.stop, RoundUnit))
            /\ \A i \in 1..Len(g) :
                   RLe(g[i], Round(RAdd(args.stop, RMul(GridTolerance, args.step)),
                                   RoundUnit))

\* The sweep of the specification's example: (0.5, 0.8, 0.05) has returned
\* the 7 points 0.50 .. 0.80.
C6_Witness ==
    /\ GridReturned
    /\ args = [start |-> Q(1, 2), stop |-> Q(4, 5), step |-> Q(1, 20)]
    /\ ret[1].val = <<Q(50, 100), Q(55, 100), Q(60, 100), Q(65, 100),
                      Q(70, 100), Q(75, 100), Q(80, 100)>>

RECURSIVE SumF(_, _)
SumF(f, S) ==
    IF S = {} THEN Zero
    ELSE LET x == CHOOSE y \in S : TRUE
         IN  RAdd(f[x], SumF(f, S \ {x}))

\* The pairs of the full Cartesian product of the two supports.
Pairs(a) == (1..Len(a.occ_values)) \X (1..Len(a.shock_bp_values))

RefRate(a, p) == RAdd(a.base_rate, RDiv(a.shock_bp_values[p[2]], <<10000, 1>>))

RefNoi(a, R, p) == RMul(RMul(RSub(One, a.c), R), a.occ_values[p[1]])

RefCashflow(a, R, D, p) == RSub(RefNoi(a, R, p), RMul(RefRate(a, p), D))

\* The DSCR of a pair whose interest is positive, floored at 0.
RefDscr(a, R, D, p) ==
    IF RLe(RefNoi(a, R, p), Zero) THEN Zero
    ELSE RDiv(RefNoi(a, R, p), RMul(RefRate(a, p), D))

RefFails(a, R, D, p) ==
    \/ RLt(RefDscr(a, R, D, p), a.min_dscr)
    \/ RLt(RefCashflow(a, R, D, p), a.min_cf)

\* The brute-force failure probability: the normalised joint weight of every
\* failing pair of the Cartesian product, each pair once.
BruteForce(a, R, D) ==
    LET so == SumF(a.occ_weights, DOMAIN a.occ_weights)
        ss == SumF(a.shock_bp_weights, DOMAIN a.shock_bp_weights)
        mass == [p \in Pairs(a) |->
                    IF RefFails(a, R, D, p)
                    THEN RMul(RDiv(a.occ_weights[p[1]], so),
                              RDiv(a.shock_bp_weights[p[2]], ss))
                    ELSE Zero]
    IN  SumF(mass, Pairs(a))

\* C2: the failure probability returned for an LTV, and the one of every row,
\* is the brute-force sum over the full Cartesian product of the supports.
C2_FailureProbabilityExact ==
    /\ pc = "worst" => loc.p_fail = BruteForce(assumptions, loc.R, loc.D)
    /\ \A n \in 1..Len(rows) :
           rows[n].failure_probability =
               BruteForce(assumptions, rows[n].gross_yield, rows[n].ltv)

\* A 2 x 2 distribution of which some pairs fail and others do not has been
\* evaluated.
C2_Witness ==
    /\ pc = "worst"
    /\ Len(assumptions.occ_values) = 2 /\ Len(assumptions.shock_bp_values) = 2
    /\ RGt(loc.p_fail, Zero) /\ RLt(loc.p_fail, One)
    /\ \E p \in Pairs(assumptions) : ~RefFails(assumptions, loc.R, loc.D, p)

\* C3: in every row, admissible <=> passes_stress /\ passes_probability, with
\* passes_stress <=> (stress_cashflow >= min_cashflow /\ stress_dscr >= min_dscr)
\* and passes_probability <=> (failure_probability <= max_failure_probability).
C3_AdmissibleIsConjunction ==
    \A n \in 1..Len(rows) :
        LET r == rows[n]
        IN  /\ r.admissible <=> (r.passes_stress /\ r.passes_probability)
            /\ r.passes_stress <=> (/\ RGe(r.stress_cashflow, assumptions.min_cf)
                                    /\ RGe(r.stress_dscr, assumptions.min_dscr))
            /\ r.passes_probability <=>
                   RLe(r.failure_probability, r.max_failure_probability)

\* A row that passes the probability check and fails the stress check, so
\* is not admissible.
C3_Witness ==
    \E n \in 1..Len(rows) :
        rows[n].passes_probability /\ ~rows[n].passes_stress /\ ~rows[n].admissible

\* C5: once an error is raised main has stopped at that point: no table is
\* ever built, and no later step (no later LTV) is taken.
C5_ErrorAbortsSweep ==
    /\ [](error # "" => (pc = "raised" /\ ~df.built))
    /\ [][error # "" => UNCHANGED vars]_vars

\* An error at the third LTV, with two rows already appended and no table.
C5_Witness ==
    /\ error # "" /\ pc = "raised"
    /\ Len(rows) = 2 /\ k = 3
    /\ ~df.built

\* C9: in a completed sweep, from one row to the next the failure probability
\* does not decrease and the stress cashflow and stress DSCR do not increase,
\* and every row before an admissible row is admissible.
C9_AdmissiblePrefix ==
    df.built =>
        \A m, n \in 1..Len(df.records) :
            m < n =>
                /\ RLe(df.records[m].ltv, df.records[n].ltv)
                /\ RLe(df.records[m].failure_probability,
                       df.records[n].failure_probability)
                /\ RGe(df.records[m].stress_cashflow, df.records[n].stress_cashflow)
                /\ RGe(df.records[m].stress_dscr, df.records[n].stress_dscr)
                /\ df.records[n].admissible => df.records[m].admissible

\* A completed sweep whose first rows are admissible and whose last is not,
\* with the failure probability rising along it.
C9_Witness ==
    /\ df.built /\ Len(df.records) >= 3
    /\ df.records[1].admissible /\ df.records[2].admissible
    /\ ~df.records[Len(df.records)].admissible
    /\ RLt(df.records[1].failure_probability,
           df.records[Len(df.records)].failure_probability)

\* The least number of a non-empty finite set.
RefMin(S) == CHOOSE x \in S : \A y \in S : RLe(x, y)

\* C10: in every row the worst cashflow and the worst DSCR are the minima
\* over every pair of the supports, whatever its weight; and when both meet
\* their thresholds the failure probability is exactly 0.
C10_WorstCaseOnSupport ==
    \A n \in 1..Len(rows) :
        LET r == rows[n]
            a == assumptions
        IN  /\ r.worst_cashflow_on_support =
                   RefMin({RefCashflow(a, r.gross_yield, r.ltv, p) : p \in Pairs(a)})
            /\ r.worst_dscr_on_support =
                   RefMin({RefDscr(a, r.gross_yield, r.ltv, p) : p \in Pairs(a)})
            /\ (/\ RGe(r.worst_cashflow_on_support, a.min_cf)
                /\ RGe(r.worst_dscr_on_support, a.min_dscr))
                   => r.failure_probability = Zero

\* The converse fails: a row with failure probability 0 whose worst case is
\* below a threshold, because the failing pair has zero joint weight.
C10_Witness ==
    \E n \in 1..Len(rows) :
        /\ rows[n].failure_probability = Zero
        /\ RLt(rows[n].worst_dscr_on_support, assumptions.min_dscr)
        /\ \E p \in Pairs(assumptions) :
               /\ RefFails(assumptions, rows[n].gross_yield, rows[n].ltv, p)
               /\ \/ assumptions.occ_weights[p[1]] = Zero
                  \/ assumptions.shock_bp_weights[p[2]] = Zero

====
